---- MODULE Spec2Model ----
(***************************************************************************)
(* Model of the one-shot patch scripts of diane-assistant/diane (src/*.py). *)
(*                                                                         *)
(* A text is a sequence of tokens.  Every token stands for one fixed       *)
(* piece of text ("\n", four spaces, "}", a marker comment, one line of a   *)
(* Swift function body, ...).  The tokens are chosen so that every         *)
(* pattern, signature and fragment of the scripts is a whole number of     *)
(* tokens and no token occurs inside a concatenation of others; "x" is a   *)
(* character that occurs in no pattern.  Matching on tokens then agrees    *)
(* with Python's matching on the characters.                               *)
(*                                                                         *)
(* Every script is: read the file, apply its rules in order to the buffer, *)
(* open the file for writing (which truncates it), write the buffer.       *)
(***************************************************************************)
EXTENDS Integers, Sequences, FiniteSets, TLC

\* ------------------------------------------------------------------ bounds
MaxChunks == 2
MaxRuns == 2

\* ------------------------------------------------------------------ tokens
NL == "\\n"
I4 == "____"
RB == "}"
X == "x"
I8 == "________"
I12 == "____________"
I16 == "________________"
I20 == "____________________"
I24 == "________________________"
\* in replacement templates: group 1 of the match
G1 == "\\1"
\* in patterns
WS == "\\s+"
DOTS == ".*?"
DOTP == ".+?"
EOT == "$"

\* ------------------------------------------------- Python string operations

\* p occurs in t at index i
StartsAt(p, t, i) ==
    /\ i >= 1
    /\ i + Len(p) - 1 <= Len(t)
    /\ \A k \in 1..Len(p) : t[i + k - 1] = p[k]

\* Python:  p in t
Contains(p, t) == \E i \in 1..Len(t) : StartsAt(p, t, i)

\* index of the last occurrence of p in t, 0 when there is none
LastAt(p, t) ==
    IF Contains(p, t)
    THEN CHOOSE i \in 1..Len(t) :
            /\ StartsAt(p, t, i)
            /\ \A j \in (i + 1)..Len(t) : ~StartsAt(p, t, j)
    ELSE 0

\* a replacement template rendered against a match whose group 1 is g
RECURSIVE Render(_, _)
Render(tmpl, g) ==
    LET S == {k \in 1..Len(tmpl) : tmpl[k] = G1} IN
    IF S = {} THEN tmpl
    ELSE LET k == CHOOSE x \in S : \A y \in S : x <= y
         IN SubSeq(tmpl, 1, k - 1) \o g \o Render(SubSeq(tmpl, k + 1, Len(tmpl)), g)

\* whitespace, as \s sees it
IsSpace(c) == c \in {NL, I4, I8, I12, I16, I20, I24}

\* the length of the run of whitespace that starts at t[i]
RECURSIVE SpaceRun(_, _)
SpaceRun(t, i) ==
    IF i <= Len(t) /\ IsSpace(t[i]) THEN 1 + SpaceRun(t, i + 1) ELSE 0

\* the regular expression p[k..] matched at t[i..]: the index just after the
\* match, 0 when it does not match.  A pattern is a sequence of literal
\* tokens and of the elements \s+ (greedy), .*? and .+? (lazy, DOTALL) and $
\* (the end of the text, or the place before a final "\n")
RECURSIVE MatchEnd(_, _, _, _)
MatchEnd(p, k, t, i) ==
    IF k > Len(p) THEN i
    ELSE IF p[k] = WS THEN
        LET S == {m \in 1..SpaceRun(t, i) : MatchEnd(p, k + 1, t, i + m) # 0}
        IN IF S = {} THEN 0
           ELSE MatchEnd(p, k + 1, t, i + (CHOOSE m \in S : \A n \in S : n <= m))
    ELSE IF p[k] \in {DOTS, DOTP} THEN
        LET lo == IF p[k] = DOTS THEN 0 ELSE 1
            S == {m \in lo..(Len(t) - i + 1) : MatchEnd(p, k + 1, t, i + m) # 0}
        IN IF S = {} THEN 0
           ELSE MatchEnd(p, k + 1, t, i + (CHOOSE m \in S : \A n \in S : m <= n))
    ELSE IF p[k] = EOT THEN
        IF i = Len(t) + 1 \/ (i = Len(t) /\ t[i] = NL)
        THEN MatchEnd(p, k + 1, t, i) ELSE 0
    ELSE IF i <= Len(t) /\ t[i] = p[k] THEN MatchEnd(p, k + 1, t, i + 1) ELSE 0

\* re.search(p, t) is not None
Matches(p, t) == \E i \in 1..Len(t) : MatchEnd(p, 1, t, i) # 0

\* re.sub(p, tmpl, t): every non-overlapping match, scanning from the left,
\* is replaced by the rendered template; group 1, where the pattern has one
\* and the template uses it, is the whole match
RECURSIVE ReSubFrom(_, _, _, _)
ReSubFrom(p, tmpl, t, i) ==
    LET S == {j \in i..Len(t) : MatchEnd(p, 1, t, j) # 0} IN
    IF S = {} THEN SubSeq(t, i, Len(t))
    ELSE LET j == CHOOSE x \in S : \A y \in S : x <= y
             e == MatchEnd(p, 1, t, j)
         IN SubSeq(t, i, j - 1) \o Render(tmpl, SubSeq(t, j, e - 1))
                \o ReSubFrom(p, tmpl, t, e)

ReSub(p, tmpl, t) == ReSubFrom(p, tmpl, t, 1)

\* str.replace(old, new): every non-overlapping occurrence, from the left
RECURSIVE StrReplaceFrom(_, _, _, _)
StrReplaceFrom(old, new, t, i) ==
    LET S == {j \in i..Len(t) : StartsAt(old, t, j)} IN
    IF S = {} THEN SubSeq(t, i, Len(t))
    ELSE LET j == CHOOSE x \in S : \A y \in S : x <= y
         IN SubSeq(t, i, j - 1) \o new \o StrReplaceFrom(old, new, t, j + Len(old))

StrReplace(old, new, t) == StrReplaceFrom(old, new, t, 1)

\* content.rsplit('}', 1)[0]: the text before the last '}', the whole text
\* when there is no '}'
RSplitHead(t) ==
    IF Contains(<<RB>>, t) THEN SubSeq(t, 1, LastAt(<<RB>>, t) - 1) ELSE t

\* s.strip('\n'): every leading and every trailing "\n" removed
RECURSIVE LStripNL(_)
LStripNL(s) == IF s # <<>> /\ Head(s) = NL THEN LStripNL(Tail(s)) ELSE s

RECURSIVE RStripNL(_)
RStripNL(s) ==
    IF s # <<>> /\ s[Len(s)] = NL THEN RStripNL(SubSeq(s, 1, Len(s) - 1)) ELSE s

StripNL(s) == RStripNL(LStripNL(s))

\* ---------------------------------------------------------------- artifacts
DianeClient == "Diane/Diane/Services/DianeClient.swift"
MockDianeClient == "Diane/DianeTests/TestHelpers/MockDianeClient.swift"
AgentsViewModel == "Diane/Diane/ViewModels/AgentsViewModel.swift"
AgentsView == "Diane/Diane/Views/AgentsView.swift"
DianeHTTPClient == "Diane/Diane/Services/DianeHTTPClient.swift"
DianeClientProtocol == "Diane/Diane/Services/DianeClientProtocol.swift"
AgentsViewsIOS == "Diane/Diane/Views/iOS/AgentsViews.swift"

\* ------------------------------------------------- rules, as the scripts use
\* kind   how the rule rewrites the buffer
\* guard  the signature whose presence skips the rule (<<>>: no guard)
\* pat    the pattern or old block; tmpl  the replacement template
\* msg    what the else branch prints (<<>>: there is no else branch)
Rule(kind, guard, pat, tmpl, msg) ==
    [kind |-> kind, guard |-> guard, pat |-> pat, tmpl |-> tmpl, msg |-> msg]

\* one artifact of a script: its path, its rules, whether the write is
\* conditional on the buffer having changed, and what is printed around it
Artifact(path, rules, cond, okmsg, nomsg) ==
    [path |-> path, rules |-> rules, cond |-> cond, okmsg |-> okmsg, nomsg |-> nomsg]

\* ------------------------------------- DianeClient.swift: tokens, fragments
MA == "// MARK: - Agents"
MG == "// MARK: - Gallery"
SG == "func addAgent(agent: AgentConfig)"
AT == " async throws {"
RWB == "try await requestWithBody(endpoint:body: agent)"
LA == "let args = [..description ?? ]"
PR == "_ = try await processRequest(args: args)"
BD == "let bodyData = try JSONEncoder().encode(agent)"
RQ == "_ = try await request(body: bodyData)"
RQT == "_ = try await request(timeout: 10, body: bodyData)"
CM == "// Local CLI only supports basic add right now"
VA == "var args = [..]; if let desc {; args.append(desc);"

AgentsMarker == <<I4, MA, NL>>
GalleryMarker == <<I4, MG, NL>>
Signature == <<SG>>
Header == <<I4, SG, AT, NL>>

\* "    func addAgent(agent: AgentConfig) async throws {\n" body "\n    }"
Function(body) == Header \o body \o <<NL, I4, RB>>

BodyRequestWithBody == <<RWB>>
BodyLetArgs == <<LA, NL, PR>>
BodyRequest == <<BD, NL, RQ>>
BodyCli == <<CM, NL, VA, RB, NL, PR>>
BodyTimeout == <<BD, NL, RQT>>
BodyVarArgs == <<VA, RB, NL, PR>>

fix_diane_client ==
    [arts |-> << Artifact(DianeClient,
        << Rule("resub", <<>>, AgentsMarker,
                <<G1, NL>> \o Function(BodyRequestWithBody) \o <<NL>>, <<>>) >>,
        FALSE, <<>>, <<>>) >>,
     final |-> <<>>]

\* fix_diane_client2.py without its "not in content" test
fix_diane_client2_unguarded ==
    [arts |-> << Artifact(DianeClient,
        << Rule("resub", <<>>, GalleryMarker,
                <<NL>> \o Function(BodyRequestWithBody) \o <<NL, NL, G1>>, <<>>) >>,
        FALSE, <<>>, <<>>) >>,
     final |-> <<>>]

fix_diane_client2 ==
    [arts |-> << Artifact(DianeClient,
        << Rule("resub", Signature, GalleryMarker,
                <<NL>> \o Function(BodyRequestWithBody) \o <<NL, NL, G1>>, <<>>) >>,
        FALSE, <<>>, <<>>) >>,
     final |-> <<>>]

fix_diane_client3 ==
    [arts |-> << Artifact(DianeClient,
        << Rule("rsplit", <<>>, <<RB>>,
                <<NL>> \o Function(BodyRequestWithBody) \o <<NL, RB, NL>>, <<>>) >>,
        FALSE, <<>>, <<>>) >>,
     final |-> <<>>]

fix_diane_client4 ==
    [arts |-> << Artifact(DianeClient,
        << Rule("resub", <<>>, Function(BodyRequestWithBody),
                StripNL(<<NL>> \o Function(BodyLetArgs) \o <<NL>>), <<>>) >>,
        FALSE, <<>>, <<>>) >>,
     final |-> <<>>]

fix_diane_client5 ==
    [arts |-> << Artifact(DianeClient,
        << Rule("resub", <<>>, Function(BodyLetArgs),
                StripNL(<<NL>> \o Function(BodyRequest) \o <<NL>>), <<>>) >>,
        FALSE, <<>>, <<>>) >>,
     final |-> <<>>]

fix_diane_client6 ==
    [arts |-> << Artifact(DianeClient,
        << Rule("resub", <<>>, Function(BodyRequest),
                StripNL(<<NL>> \o Function(BodyCli) \o <<NL>>), <<>>) >>,
        FALSE, <<>>, <<>>) >>,
     final |-> <<>>]

fix_diane_client7 ==
    [arts |-> << Artifact(DianeClient,
        << Rule("resub", <<>>, Function(BodyCli),
                StripNL(<<NL>> \o Function(BodyTimeout) \o <<NL>>), <<>>) >>,
        FALSE, <<>>, <<>>) >>,
     final |-> <<>>]

fix_diane_client8 ==
    [arts |-> << Artifact(DianeClient,
        << Rule("resub", <<>>, Function(BodyTimeout) \o <<NL, RB>>,
                StripNL(<<NL>> \o Function(BodyCli) \o <<NL, RB, NL>>) \o <<NL>>,
                <<>>) >>,
        FALSE, <<>>, <<>>) >>,
     final |-> <<>>]

fix_diane_client9 ==
    [arts |-> << Artifact(DianeClient,
        << Rule("resub", <<>>,
                Header \o <<DOTS, NL, I4, RB, NL, RB, NL, EOT>>, <<RB>>, <<>>),
           Rule("resub", Signature, GalleryMarker,
                <<NL>> \o Function(BodyCli) \o <<NL, NL, G1>>, <<>>) >>,
        FALSE, <<>>, <<>>) >>,
     final |-> <<>>]

fix_diane_client10 ==
    [arts |-> << Artifact(DianeClient,
        << Rule("replace", Signature, GalleryMarker,
                <<NL>> \o Function(BodyVarArgs) \o <<NL, NL>> \o GalleryMarker,
                <<>>) >>,
        FALSE, <<>>, <<>>) >>,
     final |-> <<>>]

fix_diane_client12 ==
    [arts |-> << Artifact(DianeClient,
        << Rule("resub", <<>>, Function(BodyVarArgs),
                StripNL(<<NL>> \o Function(BodyTimeout) \o <<NL>>), <<>>) >>,
        FALSE, <<>>, <<>>) >>,
     final |-> <<>>]

\* ---------------------------------- MockDianeClient.swift: fix_mock.py
MV == "var mockAddAgent: (() throws -> Void)?"
MK == "if let mock = mockAddAgent {; try mock();"

fix_mock ==
    [arts |-> << Artifact(MockDianeClient,
        << Rule("resub", <<>>, AgentsMarker,
                <<G1, NL, I4, MV, NL>> \o Header \o <<MK, RB, NL, I4, RB, NL>>,
                <<>>) >>,
        FALSE, <<>>, <<>>) >>,
     final |-> <<>>]

\* ------------------- DianeHTTPClient.swift and DianeClientProtocol.swift
TH == "throw DianeHTTPClientError.readOnlyMode"
SigTest == "func testAgent(name: String) async throws -> AgentTestResult {"
SigToggle == "func toggleAgent(name: String, enabled: Bool) async throws {"
SigRun == "func runAgentPrompt(..) async throws -> AgentRunResult {"
SigRemove == "func removeAgent(name: String) async throws {"
SigUpdate == "func updateAgent(..) async throws {"
SigInstall == "func installGalleryAgent(..) async throws -> GalleryInstallResponse {"
RWB2 == "_ = try await requestWithBody(body: bodyData)"
ATP == " async throws"

\* "    func f(...) {\n        throw DianeHTTPClientError.readOnlyMode\n    }"
Stub(sig) == <<I4, sig, NL, TH, NL, I4, RB>>

\* the function with its body filled in (the body that the script gives the
\* function of that signature)
IMPL == "let encodedName = ..; requestWithBody(..)"

Filled(sig) == <<I4, sig, NL, IMPL, NL, I4, RB>>

fix_http_client ==
    [arts |-> << Artifact(DianeHTTPClient,
        << Rule("resub", <<>>, Stub(SigTest),
                StripNL(<<NL>> \o Filled(SigTest) \o <<NL>>), <<>>),
           Rule("resub", <<>>, Stub(SigToggle),
                StripNL(<<NL>> \o Filled(SigToggle) \o <<NL>>), <<>>),
           Rule("resub", <<>>, Stub(SigRun),
                StripNL(<<NL>> \o Filled(SigRun) \o <<NL>>), <<>>),
           Rule("resub", <<>>, Stub(SigRemove),
                StripNL(<<NL>> \o Filled(SigRemove) \o <<NL>>), <<>>),
           Rule("resub", <<>>, Stub(SigUpdate),
                StripNL(<<NL>> \o Filled(SigUpdate) \o <<NL>>), <<>>) >>,
        FALSE, <<>>, <<>>) >>,
     final |-> <<>>]

fix_http_client2 ==
    [arts |-> << Artifact(DianeHTTPClient,
        << Rule("resub", <<>>, AgentsMarker,
                <<G1, NL>> \o Function(<<BD, NL, RWB2>>) \o <<NL>>, <<>>) >>,
        FALSE, <<>>, <<>>),
                 Artifact(DianeClientProtocol,
        << Rule("resub", <<>>, AgentsMarker, <<G1, I4, SG, ATP, NL>>, <<>>) >>,
        FALSE, <<>>, <<>>) >>,
     final |-> <<>>]

fix_install ==
    [arts |-> << Artifact(DianeHTTPClient,
        << Rule("resub", <<>>, Stub(SigInstall),
                StripNL(<<NL>> \o Filled(SigInstall) \o <<NL>>), <<>>) >>,
        FALSE, <<>>, <<>>) >>,
     final |-> <<>>]

\* ------------------------------------------------- AgentsViewModel.swift
SAF == "var showAddAgent = false"
SE == "func startEditing() {"
IE == "var installError: String?"
MH == "// MARK: - Helpers"
\* "    var showGallerySheet = false\n    var newAgentURL = \"\"\n
\*      var newAgentDescription = \"\""
ST == "    var showGallerySheet; newAgentURL; newAgentDescription"
GE == "    var galleryEntries: [GalleryEntry] = []"
WCA == "    var newAgentWorkdir; newAgentCommand; newAgentArgs"
WS2 == "    // Workspace Config State; var newAgentBaseImage..SetupCommands"
CA1 == "    func addCustomAgent() async {..do {"
CA2 == "try await client.addAgent(agent: agent)..showAddAgent = false"
CA3 == "            installError = ..}; isInstalling = false; }"
AH == "            let agent = AgentConfig(; name: newAgentName,"
UO == "                url: newAgentURL,"
UN == "                url: newAgentURL.isEmpty ? nil : newAgentURL,"
TACP == "                type: acp, command: nil, args: nil,"
TAGT == "                type: acp_agent, command: newAgentCommand.., args: ..,"
MID == "                env: nil,..tags: nil"
COMMA == ","
WL == "                workspaceConfig: workspaceConfig"
CP == "            )"
WSC == "            var workspaceConfig: WorkspaceConfig? = nil; if ..{..}"
RS1 == "            // Reset; newAgentName..newAgentWorkdir = "
RS2 == "            newAgentBaseImage..newAgentSetupCommands = []"
CT == "        } catch {"
ES == "    // MARK: - Edit Agent State..var editError: String?"
EF == "        guard let agent..}; func saveEdit() async {..}"

\* the AgentConfig(...) creation block before the patch, by its type lines
OldAdd(type) == <<AH, NL, UO, NL, type, NL, MID, NL, CP>>

\* and after it
NewAdd(type) ==
    <<WSC, NL, NL, AH, NL, UN, NL, type, NL, MID, COMMA, NL, WL, NL, CP>>

old_reset == <<RS1, NL, CT>>
new_reset == <<RS1, NL, RS2, NL, CT>>

fix_vm ==
    [arts |-> << Artifact(AgentsViewModel,
        << Rule("resub", <<>>, <<I4, SAF, NL>>, <<G1, NL, ST, NL>>, <<>>),
           Rule("resub", <<>>, <<I4, SE, NL>>,
                <<NL, CA1, NL>> \o OldAdd(TACP) \o <<NL, I12, NL, I12, CA2, NL, I12, NL>>
                    \o old_reset \o <<NL, CA3, NL, NL, G1>>, <<>>) >>,
        FALSE, <<>>, <<>>) >>,
     final |-> <<>>]

update_agents_view_model ==
    [arts |-> << Artifact(AgentsViewModel,
        << Rule("resub", <<>>, <<I4, IE, NL>>, <<G1, NL, NL, ES, NL>>, <<>>),
           Rule("resub", <<>>, <<I4, MH, NL>>,
                <<NL, I4, SE, NL, EF, NL, NL, G1>>, <<>>) >>,
        FALSE, <<>>, <<>>) >>,
     final |-> <<>>]

\* patch_agents_view_model.py looking for the type "acp" block
patch_agents_view_model_acp ==
    [arts |-> << Artifact(AgentsViewModel,
        << Rule("ifin", <<>>, <<ST, NL, WCA>>,
                <<ST, NL, WCA, NL, I4, NL, WS2>>,
                <<"Could not find properties block">>),
           Rule("ifin", <<>>, OldAdd(TACP), NewAdd(TAGT),
                <<"Could not find agent creation block">>) >>,
        FALSE, <<>>, <<>>) >>,
     final |-> <<"Python patch complete">>]

patch_agents_view_model ==
    [arts |-> << Artifact(AgentsViewModel,
        << Rule("ifin", <<>>, <<ST, NL, WCA>>,
                <<ST, NL, WCA, NL, I4, NL, WS2>>,
                <<"Could not find properties block">>),
           Rule("ifin", <<>>, OldAdd(TAGT), NewAdd(TAGT),
                <<"Could not find agent creation block">>) >>,
        FALSE, <<>>, <<>>) >>,
     final |-> <<"Python patch complete">>]

patch_agents_view_model2 ==
    [arts |-> << Artifact(AgentsViewModel,
        << Rule("ifin", <<>>, <<ST, NL, GE>>,
                <<ST, NL, I4, NL, WS2, NL, I4, NL, GE>>,
                <<"Could not find properties block">>),
           Rule("ifin", <<>>, OldAdd(TACP), NewAdd(TACP),
                <<"Could not find agent creation block">>) >>,
        FALSE, <<>>, <<>>) >>,
     final |-> <<"Python patch 2 complete">>]

patch_agents_view_model3 ==
    [arts |-> << Artifact(AgentsViewModel,
        << Rule("ifin", <<>>, old_reset, new_reset,
                <<"Could not find reset block">>) >>,
        FALSE, <<>>, <<>>) >>,
     final |-> <<"Python patch 3 complete">>]

\* ------------------------------------------------------ AgentsView.swift
EV == "// MARK: - Error View"
CU1 == "// MARK: - Custom Agent Setup..Divider()"
CU2 == ".padding()..Button(Add Agent)...buttonStyle(.borderedProminent)"
CU3 == ".padding(); }; .frame(width: 450, height: 350); }"
FO == "Form { TextField x4 }"
FN == "Form { Section(Basic Settings) Section(Workspace Configuration) }"
DIS == ".disabled(newAgentName.isEmpty || newAgentURL.isEmpty || isInstalling)"
DIS2 == ".disabled(newAgentName.isEmpty || isInstalling)"
AB == "// Add Agent button"
BT == "Button {"
SA == "viewModel.showAddAgent = true"
TK == "Task { await viewModel.loadGallery() }"
LB == "} label: {"
LAB == "Label(Add Agent, systemImage: plus)"
MN == "Menu { Button(From Gallery) {..}; Button(Custom Agent) {..}"
SH == ".sheet(isPresented: $viewModel.showAddAgent) {"
SHG == ".sheet(isPresented: $viewModel.showGallerySheet) {"
SHE == ".sheet(isPresented: $viewModel.showEditAgent) {"
AAS == "addAgentSheet"
CAS == "customAgentSheet"
EAS == "editAgentSheet"
SB == "// Status badge; if let result = ..{; statusBadge(for: result); }"
EB == "Button {; viewModel.startEditing()...help(Edit Agent)"
AS == "// MARK: - Add Agent Sheet"
ESH == "// MARK: - Edit Agent Sheet..}"

old_fields == <<I12, FO>>
new_fields == <<I12, FN>>

custom_agent ==
    <<NL, I4, CU1, NL, I12, NL>> \o old_fields
        \o <<NL, I12, CU2, NL, I16, DIS, NL, I12, RB, NL, I12, CU3, NL>>

\* fix_ui.py, were its new sheets to leave addAgentSheet under showAddAgent
fix_ui_keeps_sheet ==
    [arts |-> << Artifact(AgentsView,
        << Rule("replace", <<>>, <<I4, EV>>, custom_agent \o <<NL, I4, EV>>, <<>>),
           Rule("resub", <<>>,
                <<WS, AB, NL, WS, BT, NL, WS, SA, NL, WS, TK, NL, WS, LB, NL,
                  WS, LAB, NL, WS, RB>>,
                <<NL, I12, AB, NL, I12, MN, NL, I12, LB, NL, I16, LAB, NL,
                  I12, RB, NL>>, <<>>),
           Rule("resub", <<>>, <<WS, SH, NL, WS, AAS, NL, WS, RB>>,
                <<NL, I8, SH, NL, I12, AAS, NL, I8, RB, NL,
                  I8, SHG, NL, I12, CAS, NL, I8, RB, NL>>, <<>>) >>,
        FALSE, <<>>, <<>>) >>,
     final |-> <<>>]

fix_ui ==
    [arts |-> << Artifact(AgentsView,
        << Rule("replace", <<>>, <<I4, EV>>, custom_agent \o <<NL, I4, EV>>, <<>>),
           Rule("resub", <<>>,
                <<WS, AB, NL, WS, BT, NL, WS, SA, NL, WS, TK, NL, WS, LB, NL,
                  WS, LAB, NL, WS, RB>>,
                <<NL, I12, AB, NL, I12, MN, NL, I12, LB, NL, I16, LAB, NL,
                  I12, RB, NL>>, <<>>),
           Rule("resub", <<>>, <<WS, SH, NL, WS, AAS, NL, WS, RB>>,
                <<NL, I8, SH, NL, I12, CAS, NL, I8, RB, NL,
                  I8, SHG, NL, I12, AAS, NL, I8, RB, NL>>, <<>>) >>,
        FALSE, <<>>, <<>>) >>,
     final |-> <<>>]

patch_agents_view ==
    [arts |-> << Artifact(AgentsView,
        << Rule("ifin", <<>>, old_fields, new_fields,
                <<"Could not find fields block">>),
           Rule("ifin", <<>>, <<DIS>>, <<DIS2>>,
                <<"Could not find disabled block">>) >>,
        FALSE, <<>>, <<>>) >>,
     final |-> <<"Python patch AgentsView complete">>]

update_agents_view ==
    [arts |-> << Artifact(AgentsView,
        << Rule("resub", <<>>, <<SH, NL, WS, AAS, NL, WS, RB>>,
                <<G1, NL, I8, SHE, NL, I12, EAS, NL, I8, RB>>, <<>>),
           Rule("resub", <<>>, <<I24, SB, NL, I20, RB>>,
                <<NL, I24, EB, NL, I24, NL, G1>>, <<>>),
           Rule("resub", <<>>, <<I4, AS>>, <<NL, I4, ESH, NL, NL, G1>>, <<>>) >>,
        FALSE, <<>>, <<>>) >>,
     final |-> <<>>]

\* ------------------------------------------------ iOS/AgentsViews.swift
DS == "DetailSection(title: Connection) {"
WC1 == "if let wc = agent.workspaceConfig {..InfoRow(Base Image)"
WC2 == "..InfoRow(Setup Commands); }; }"

patch_ios_agents_views ==
    [arts |-> << Artifact(AgentsViewsIOS,
        << Rule("resub", <<>>, <<DS, DOTP, RB>>,
                <<G1, NL, I12, NL, I12, WC1, NL, I24, RB, NL, WC2, RB>>, <<>>) >>,
        TRUE,
        <<"Patched AgentsViews.swift successfully">>,
        <<"Could not find Connection section in AgentsViews.swift">>) >>,
     final |-> <<>>]

\* ------------------------------------------------------ one rule on a buffer
\* does the rule's anchor, pattern or old block occur in the buffer
Found(r, t) ==
    IF r.kind = "resub" THEN Matches(r.pat, t) ELSE Contains(r.pat, t)

\* does the rule's guard (if "sig" not in content) find the signature
Guarded(r, t) == r.guard # <<>> /\ Contains(r.guard, t)

\* the buffer after the rule
Apply(r, t) ==
    IF Guarded(r, t) THEN t
    ELSE CASE r.kind = "resub" -> ReSub(r.pat, r.tmpl, t)
           [] r.kind = "replace" -> StrReplace(r.pat, r.tmpl, t)
           [] r.kind = "ifin" ->
                IF Contains(r.pat, t) THEN StrReplace(r.pat, r.tmpl, t) ELSE t
           [] r.kind = "rsplit" -> RSplitHead(t) \o r.tmpl

\* what the rule prints
Printed(r, t) ==
    IF r.kind = "ifin" /\ ~Contains(r.pat, t) THEN r.msg ELSE <<>>

\* the outcome of the rule in the vocabulary of the specification
Outcome(r, t) ==
    IF Guarded(r, t) THEN "skipped"
    ELSE IF Found(r, t) THEN "applied" ELSE "not-found"

\* ------------------------------------------------------------------ scripts
Scripts ==
    {"fix_diane_client",
     "fix_diane_client2",
     "fix_diane_client3",
     "fix_diane_client4",
     "fix_diane_client5",
     "fix_diane_client6",
     "fix_diane_client7",
     "fix_diane_client8",
     "fix_diane_client9",
     "fix_diane_client10",
     "fix_diane_client12",
     "fix_mock",
     "fix_vm",
     "fix_http_client",
     "fix_http_client2",
     "fix_install",
     "fix_ui",
     "patch_agents_view",
     "patch_agents_view_model",
     "patch_agents_view_model2",
     "patch_agents_view_model3",
     "patch_ios_agents_views",
     "update_agents_view",
     "update_agents_view_model"}

Def(s) ==
    CASE s = "fix_diane_client" -> fix_diane_client
      [] s = "fix_diane_client2" -> fix_diane_client2
      [] s = "fix_diane_client3" -> fix_diane_client3
      [] s = "fix_diane_client4" -> fix_diane_client4
      [] s = "fix_diane_client5" -> fix_diane_client5
      [] s = "fix_diane_client6" -> fix_diane_client6
      [] s = "fix_diane_client7" -> fix_diane_client7
      [] s = "fix_diane_client8" -> fix_diane_client8
      [] s = "fix_diane_client9" -> fix_diane_client9
      [] s = "fix_diane_client10" -> fix_diane_client10
      [] s = "fix_diane_client12" -> fix_diane_client12
      [] s = "fix_mock" -> fix_mock
      [] s = "fix_vm" -> fix_vm
      [] s = "fix_http_client" -> fix_http_client
      [] s = "fix_http_client2" -> fix_http_client2
      [] s = "fix_install" -> fix_install
      [] s = "fix_ui" -> fix_ui
      [] s = "patch_agents_view" -> patch_agents_view
      [] s = "patch_agents_view_model" -> patch_agents_view_model
      [] s = "patch_agents_view_model2" -> patch_agents_view_model2
      [] s = "patch_agents_view_model3" -> patch_agents_view_model3
      [] s = "patch_ios_agents_views" -> patch_ios_agents_views
      [] s = "update_agents_view" -> update_agents_view
      [] s = "update_agents_view_model" -> update_agents_view_model

Paths(s) == {Def(s).arts[a].path : a \in 1..Len(Def(s).arts)}

Files ==
    {DianeClient, MockDianeClient, AgentsViewModel, AgentsView,
     DianeHTTPClient, DianeClientProtocol, AgentsViewsIOS}

\* ------------------------------------------------------- the files at start
\* a file is a concatenation of at most MaxChunks pieces of the kind the
\* scripts look for, leave behind, or pass over
ClientChunks ==
    {<<X>>, <<NL>>, AgentsMarker, GalleryMarker, <<RB, NL>>,
     <<I4, RB, NL, RB, NL>>, <<I4, SG, NL>>,
     Function(BodyRequestWithBody) \o <<NL>>,
     Function(BodyLetArgs) \o <<NL>>,
     Function(BodyRequest) \o <<NL>>,
     Function(BodyCli) \o <<NL>>,
     Function(BodyTimeout) \o <<NL>>,
     Function(BodyVarArgs) \o <<NL>>}

MarkerChunks == {<<X>>, <<NL>>, AgentsMarker, <<I4, SG, NL>>}

HTTPChunks ==
    {<<X>>, <<NL>>, AgentsMarker} \cup
    {Stub(sig) \o <<NL>> :
        sig \in {SigTest, SigToggle, SigRun, SigRemove, SigUpdate, SigInstall}}

ViewModelChunks ==
    {<<X>>, <<NL>>, <<I4, SAF, NL>>, <<I4, SE, NL>>, <<I4, IE, NL>>,
     <<I4, MH, NL>>, <<ST, NL, WCA>>, <<ST, NL, GE>>,
     OldAdd(TACP), OldAdd(TAGT), old_reset}

ViewChunks ==
    {<<X>>, <<NL>>, <<I4, EV, NL>>, old_fields, <<DIS>>,
     <<NL, I8, SH, NL, I12, AAS, NL, I8, RB>>,
     <<NL, I12, AB, NL, I12, BT, NL, I16, SA, NL, I16, TK, NL, I12, LB, NL,
       I16, LAB, NL, I12, RB>>,
     <<I24, SB, NL, I20, RB>>, <<I4, AS, NL>>}

IOSChunks == {<<X>>, <<NL>>, <<DS>>, <<RB>>, <<DS, X, RB>>}

Chunks(f) ==
    CASE f = DianeClient -> ClientChunks
      [] f = MockDianeClient -> MarkerChunks
      [] f = DianeClientProtocol -> MarkerChunks
      [] f = DianeHTTPClient -> HTTPChunks
      [] f = AgentsViewModel -> ViewModelChunks
      [] f = AgentsView -> ViewChunks
      [] f = AgentsViewsIOS -> IOSChunks

RECURSIVE Texts(_, _)
Texts(cs, n) ==
    IF n = 0 THEN {<<>>}
    ELSE LET S == Texts(cs, n - 1) IN S \cup {c \o t : c \in cs, t \in S}

\* -------------------------------------------------------------------- state
VARIABLES
    disk,      \* the text of every file
    target,    \* the file under study; the other files are empty
    pc,        \* "idle", "read", "rules", "opened"
    cur,       \* the script that is running
    art,       \* which of its artifacts it is at
    rule,      \* which rule comes next
    content,   \* the buffer
    start,     \* the target as the run found it     (observer)
    before,    \* the buffer as it was read          (observer)
    log,       \* the rule applications of this run  (observer)
    opens,     \* opens for writing in this run      (observer)
    out,       \* what this run has printed
    hist       \* the finished runs, oldest first    (observer)

vars == <<disk, target, pc, cur, art, rule, content, start, before, log, opens, out, hist>>

Init ==
    /\ target \in {f \in Files : Chunks(f) # {}}
    /\ \E t \in Texts(Chunks(target), MaxChunks) :
          disk = [f \in Files |-> IF f = target THEN t ELSE <<>>]
    /\ pc = "idle"
    /\ cur = "none"
    /\ art = 0
    /\ rule = 0
    /\ content = <<>>
    /\ start = <<>>
    /\ before = <<>>
    /\ log = <<>>
    /\ opens = 0
    /\ out = <<>>
    /\ hist = <<>>

CurArt == Def(cur).arts[art]

\* the run is over: remember it
Finished(status, newdisk, newout, newopens) ==
    /\ hist' = Append(hist, [script |-> cur, status |-> status,
                             input |-> start, output |-> newdisk[target],
                             path |-> CurArt.path, read |-> before,
                             left |-> newdisk[CurArt.path],
                             out |-> newout, opens |-> newopens, log |-> log])
    /\ pc' = "idle"

\* a run of script s begins: nothing read, nothing printed
Begin(s) ==
    /\ cur' = s
    /\ art' = 1
    /\ pc' = "read"
    /\ rule' = 0
    /\ out' = <<>>
    /\ opens' = 0
    /\ log' = <<>>
    /\ content' = <<>>
    /\ start' = disk[target]
    /\ before' = <<>>
    /\ UNCHANGED <<disk, target, hist>>

\* the operator starts a script; a run that ended in a traceback ends the
\* session
Start(s) ==
    /\ pc = "idle"
    /\ Len(hist) < MaxRuns
    /\ hist # <<>> => hist[Len(hist)].status = "done"
    /\ target \in Paths(s)
    /\ Begin(s)

\* with open(path, 'r') as f: content = f.read()
Read ==
    /\ pc = "read"
    /\ content' = disk[CurArt.path]
    /\ before' = disk[CurArt.path]
    /\ rule' = 1
    /\ pc' = "rules"
    /\ UNCHANGED <<disk, target, cur, art, start, log, opens, out, hist>>

\* the open or the read raises: the script ends with a traceback
ReadFail ==
    /\ pc = "read"
    /\ Finished("read-failed", disk, out, opens)
    /\ UNCHANGED <<disk, target, cur, art, rule, content, start, before, log, opens, out>>

\* ApplyRule, were a rule that is skipped or finds nothing to end the rules
\* of the artifact
ApplyRule_stops ==
    /\ pc = "rules"
    /\ rule <= Len(CurArt.rules)
    /\ LET r == CurArt.rules[rule] IN
        /\ content' = Apply(r, content)
        /\ out' = out \o Printed(r, content)
        /\ log' = Append(log, [art |-> art, idx |-> rule, rule |-> r,
                               input |-> content, output |-> content',
                               outcome |-> Outcome(r, content)])
        /\ rule' = IF Outcome(r, content) = "applied"
                   THEN rule + 1 ELSE Len(CurArt.rules) + 1
    /\ UNCHANGED <<disk, target, pc, cur, art, start, before, opens, hist>>

\* ApplyRule, were every rule to write its result through to the file
ApplyRule_writes ==
    /\ pc = "rules"
    /\ rule <= Len(CurArt.rules)
    /\ LET r == CurArt.rules[rule] IN
        /\ content' = Apply(r, content)
        /\ out' = out \o Printed(r, content)
        /\ log' = Append(log, [art |-> art, idx |-> rule, rule |-> r,
                               input |-> content, output |-> content',
                               outcome |-> Outcome(r, content)])
    /\ disk' = [disk EXCEPT ![CurArt.path] = content']
    /\ rule' = rule + 1
    /\ UNCHANGED <<target, pc, cur, art, start, before, opens, hist>>

\* the next rule of the script
ApplyRule ==
    /\ pc = "rules"
    /\ rule <= Len(CurArt.rules)
    /\ LET r == CurArt.rules[rule] IN
        /\ content' = Apply(r, content)
        /\ out' = out \o Printed(r, content)
        /\ log' = Append(log, [art |-> art, idx |-> rule, rule |-> r,
                               input |-> content, output |-> content',
                               outcome |-> Outcome(r, content)])
    /\ rule' = rule + 1
    /\ UNCHANGED <<disk, target, pc, cur, art, start, before, opens, hist>>

\* what follows the write (or the decision not to write) of an artifact
AfterArtifact(newdisk, newout, newopens) ==
    IF art < Len(Def(cur).arts)
    THEN /\ art' = art + 1
         /\ pc' = "read"
         /\ out' = newout
         /\ UNCHANGED hist
    ELSE /\ Finished("done", newdisk, newout \o Def(cur).final, newopens)
         /\ out' = newout \o Def(cur).final
         /\ UNCHANGED art

\* if new_content != content: ... else: print(...)   (only where the write
\* is conditional)
SkipWrite ==
    /\ pc = "rules"
    /\ rule > Len(CurArt.rules)
    /\ CurArt.cond
    /\ content = before
    /\ AfterArtifact(disk, out \o CurArt.nomsg, opens)
    /\ UNCHANGED <<disk, target, cur, rule, content, start, before, log, opens>>

\* open(path, 'w'): the file is truncated before anything is written
OpenWrite ==
    /\ pc = "rules"
    /\ rule > Len(CurArt.rules)
    /\ CurArt.cond => content # before
    /\ disk' = [disk EXCEPT ![CurArt.path] = <<>>]
    /\ opens' = opens + 1
    /\ pc' = "opened"
    /\ UNCHANGED <<target, cur, art, rule, content, start, before, log, out, hist>>

\* open(path, 'w') raises: nothing was truncated
OpenFail ==
    /\ pc = "rules"
    /\ rule > Len(CurArt.rules)
    /\ CurArt.cond => content # before
    /\ Finished("write-failed", disk, out, opens)
    /\ UNCHANGED <<disk, target, cur, art, rule, content, start, before, log, opens, out>>

\* f.write(content) and the close of the with block
Write ==
    /\ pc = "opened"
    /\ disk' = [disk EXCEPT ![CurArt.path] = content]
    /\ AfterArtifact(disk', out \o CurArt.okmsg, opens)
    /\ UNCHANGED <<target, cur, rule, content, start, before, log, opens>>

\* how much of the buffer a failed write may leave in the file: nothing, or
\* the first half (any proper prefix is possible; these two are enumerated)
PartialLengths(t) == {0, Len(t) \div 2}

\* the write raises or the process is killed: a prefix of the buffer, maybe
\* none of it, has reached the file
WriteFail ==
    /\ pc = "opened"
    /\ \E k \in PartialLengths(content) :
          /\ disk' = [disk EXCEPT ![CurArt.path] = SubSeq(content, 1, k)]
          /\ Finished("write-failed", disk', out, opens)
    /\ UNCHANGED <<target, cur, art, rule, content, start, before, log, opens, out>>

Next ==
    \/ \E s \in Scripts : Start(s)
    \/ Read
    \/ ReadFail
    \/ ApplyRule
    \/ SkipWrite
    \/ OpenWrite
    \/ OpenFail
    \/ Write
    \/ WriteFail

Spec == Init /\ [][Next]_vars

\* ------------------------------------------- the chain on DianeClient.swift
\* the scripts that patch DianeClient.swift, in the order of their numbers
Chain ==
    <<"fix_diane_client", "fix_diane_client2", "fix_diane_client3",
      "fix_diane_client4", "fix_diane_client5", "fix_diane_client6",
      "fix_diane_client7", "fix_diane_client8", "fix_diane_client9",
      "fix_diane_client10", "fix_diane_client12">>

\* how often the piece p occurs in t
Count(p, t) == Cardinality({i \in 1..Len(t) : StartsAt(p, t, i)})

\* a file before the chain: no addAgent, each marker at most once
Unpatched(t) ==
    /\ ~Contains(Signature, t)
    /\ Count(AgentsMarker, t) <= 1
    /\ Count(GalleryMarker, t) <= 1

ChainInit ==
    /\ Init
    /\ target = DianeClient
    /\ Unpatched(disk[DianeClient])

\* the operator starts the next script of the chain
StartChain ==
    /\ pc = "idle"
    /\ Len(hist) < Len(Chain)
    /\ hist # <<>> => hist[Len(hist)].status = "done"
    /\ Begin(Chain[Len(hist) + 1])

ChainNext ==
    \/ StartChain
    \/ Read
    \/ ReadFail
    \/ ApplyRule
    \/ OpenWrite
    \/ OpenFail
    \/ Write
    \/ WriteFail

ChainSpec == ChainInit /\ [][ChainNext]_vars

\* ------------------------------------------------------------------ claims
Done(n) == hist[n].status = "done"

\* two runs of the same script in succession, both run to the end
SameTwice(n) ==
    /\ n >= 2
    /\ hist[n].script = hist[n - 1].script
    /\ Done(n - 1)
    /\ Done(n)

\* C1: running any script twice in succession leaves, after the second run,
\* the text the first run left
C1_Idempotent ==
    \A n \in 1..Len(hist) :
        SameTwice(n) => hist[n].output = hist[n - 1].output

GuardedScripts == {"fix_diane_client2", "fix_diane_client10"}

\* C2: in fix_diane_client2.py and fix_diane_client10.py the guard comes
\* before the matcher: when the signature occurs in the file as read the
\* rule is skipped and the text written back is the text read; so a second
\* run after a run that inserted the function changes nothing
C2_GuardFirst ==
    \A n \in 1..Len(hist) :
        (hist[n].script \in GuardedScripts /\ Done(n)) =>
            /\ Contains(Signature, hist[n].read) =>
                  /\ hist[n].left = hist[n].read
                  /\ \A k \in 1..Len(hist[n].log) :
                        hist[n].log[k].outcome = "skipped"
            /\ (SameTwice(n) /\ hist[n - 1].output # hist[n - 1].input) =>
                  hist[n].output = hist[n].input

\* C2, its case: the second of two runs of a guarded script, the first of
\* which inserted the function before the Gallery marker
C2_Witness ==
    \E n \in 1..Len(hist) :
        /\ hist[n].script \in GuardedScripts
        /\ SameTwice(n)
        /\ hist[n - 1].output # hist[n - 1].input
        /\ Contains(GalleryMarker, hist[n].read)
        /\ Contains(Signature, hist[n].read)

\* an addAgent definition with a Gallery marker somewhere after it
PatchedShape(t) ==
    \E i, j \in 1..Len(t) :
        i < j /\ StartsAt(Header, t, i) /\ StartsAt(GalleryMarker, t, j)

\* C3: a run of fix_diane_client9.py on a file that already has an addAgent
\* definition before the Gallery marker writes back the text it read
C3_RerunNoOp ==
    \A n \in 1..Len(hist) :
        (hist[n].script = "fix_diane_client9" /\ Done(n)
            /\ PatchedShape(hist[n].read)) =>
            hist[n].left = hist[n].read

\* C4: a rule whose outcome is not-found or skipped leaves the buffer as it
\* found it
C4_NoOpPreserved ==
    \A k \in 1..Len(log) :
        log[k].outcome \in {"not-found", "skipped"} =>
            log[k].output = log[k].input

\* did a rule of the artifact at hand have the outcome applied
AnyApplied ==
    \E k \in 1..Len(log) : log[k].art = art /\ log[k].outcome = "applied"

\* C5: the file is opened for writing only when a rule of the script was
\* applied
C5_WriteOnlyIfApplied == pc = "opened" => AnyApplied

\* where the rule's pattern matches in t
MatchesAt(r, t, i) ==
    IF r.kind = "resub" THEN MatchEnd(r.pat, 1, t, i) # 0
    ELSE StartsAt(r.pat, t, i)

MatchCount(r, t) == Cardinality({i \in 1..Len(t) : MatchesAt(r, t, i)})

\* the first match in document order: where it starts, and the index just
\* after it
FirstStart(r, t) ==
    CHOOSE i \in 1..Len(t) :
        MatchesAt(r, t, i) /\ \A j \in 1..(i - 1) : ~MatchesAt(r, t, j)

FirstStop(r, t) ==
    IF r.kind = "resub" THEN MatchEnd(r.pat, 1, t, FirstStart(r, t))
    ELSE FirstStart(r, t) + Len(r.pat)

\* the text with the first match alone substituted
SubFirst(r, t) ==
    LET i == FirstStart(r, t)
        e == FirstStop(r, t)
    IN SubSeq(t, 1, i - 1) \o Render(r.tmpl, SubSeq(t, i, e - 1))
           \o SubSeq(t, e, Len(t))

\* an insert rule gives its anchor back: as group 1 of the template, or as
\* the head or the tail of the new text of a literal replace
IsInsert(r) ==
    /\ r.kind # "rsplit"
    /\ \/ \E k \in 1..Len(r.tmpl) : r.tmpl[k] = G1
       \/ r.kind \in {"replace", "ifin"} /\ Contains(r.pat, r.tmpl)

IsReplace(r) == r.kind # "rsplit" /\ ~IsInsert(r)

NotG1(c) == c # G1

\* what an insert rule puts next to its anchor
Fragment(r) ==
    IF r.kind = "resub" THEN SelectSeq(r.tmpl, NotG1)
    ELSE IF StartsAt(r.pat, r.tmpl, 1)
         THEN SubSeq(r.tmpl, Len(r.pat) + 1, Len(r.tmpl))
         ELSE SubSeq(r.tmpl, 1, Len(r.tmpl) - Len(r.pat))

\* C6: where the pattern of a rule matches at more than one place, the first
\* match in document order alone is substituted or used as the anchor
C6_FirstOccurrenceOnly ==
    \A k \in 1..Len(log) :
        (log[k].outcome = "applied" /\ log[k].rule.kind # "rsplit"
            /\ MatchCount(log[k].rule, log[k].input) > 1) =>
            log[k].output = SubFirst(log[k].rule, log[k].input)

\* C7: after a replace rule whose old span occurs, the buffer is the text
\* before the span, the replacement, and the text after the span
C7_ReplaceSpanPrecise ==
    \A k \in 1..Len(log) :
        (log[k].outcome = "applied" /\ IsReplace(log[k].rule)) =>
            LET r == log[k].rule
                t == log[k].input
            IN log[k].output =
                  SubSeq(t, 1, FirstStart(r, t) - 1) \o r.tmpl
                      \o SubSeq(t, FirstStop(r, t), Len(t))

\* C8: after an insert rule the anchor is still there, it occurs as often
\* as before, and taking the inserted fragment out gives the old buffer
C8_InsertKeepsAnchor ==
    \A k \in 1..Len(log) :
        (log[k].outcome = "applied" /\ IsInsert(log[k].rule)) =>
            LET r == log[k].rule
                t == log[k].input
                u == log[k].output
            IN /\ Found(r, u)
               /\ MatchCount(r, u) = MatchCount(r, t)
               /\ \E i \in 0..Len(t) :
                     u = SubSeq(t, 1, i) \o Fragment(r) \o SubSeq(t, i + 1, Len(t))

\* C9: the file holds the text that was read whenever the rewrite is under
\* way or has failed
C9_AtomicWrite ==
    /\ pc = "opened" => disk[CurArt.path] = before
    /\ \A n \in 1..Len(hist) :
          hist[n].status = "write-failed" => hist[n].left = hist[n].read

NotFoundAdd == "Could not find agent creation block"

\* patch_agents_view_model.py, then patch_agents_view_model2.py, on a file
\* in which only the second candidate (type "acp") occurs
SecondCandidateOnly(n) ==
    /\ n >= 2
    /\ hist[n - 1].script = "patch_agents_view_model"
    /\ hist[n].script = "patch_agents_view_model2"
    /\ Done(n - 1)
    /\ Done(n)
    /\ Contains(OldAdd(TACP), hist[n - 1].input)
    /\ ~Contains(OldAdd(TAGT), hist[n - 1].input)

\* C10: then the first candidate is reported as not found and leaves the
\* text as it was, the second candidate is the one applied, and the first
\* is never taken as found
C10_FallbackOrder ==
    \A n \in 1..Len(hist) :
        SecondCandidateOnly(n) =>
            LET first == hist[n - 1].log[2]
                second == hist[n].log[2]
            IN /\ first.outcome = "not-found"
               /\ first.output = first.input
               /\ \E m \in 1..Len(hist[n - 1].out) : hist[n - 1].out[m] = NotFoundAdd
               /\ second.outcome = "applied"
               /\ Contains(OldAdd(TACP), second.input)
               /\ Contains(NewAdd(TACP), second.output)
               /\ ~Contains(OldAdd(TACP), second.output)
               /\ \A m \in 1..Len(hist[n].out) : hist[n].out[m] # NotFoundAdd
               /\ Contains(NewAdd(TAGT), hist[n].output) =>
                     Contains(NewAdd(TAGT), hist[n - 1].input)

C10_Witness ==
    \E n \in 1..Len(hist) :
        SecondCandidateOnly(n) /\ hist[n].output # hist[n - 1].input

\* every rule of every artifact of script s has an entry in the log l
Attempted(s, l) ==
    \A a \in 1..Len(Def(s).arts) :
        \A i \in 1..Len(Def(s).arts[a].rules) :
            \E k \in 1..Len(l) : l[k].art = a /\ l[k].idx = i

\* C11: no outcome of a rule stops the script: a rule takes as its input the
\* output of the rule before it, whatever that rule's outcome was, the file
\* is opened for writing only after every rule of the artifact was attempted,
\* and a run that ended normally attempted every rule
C11_PipelineContinues ==
    /\ \A k \in 2..Len(log) :
          log[k].art = log[k - 1].art =>
              /\ log[k].idx = log[k - 1].idx + 1
              /\ log[k].input = log[k - 1].output
    /\ pc = "opened" =>
          \A i \in 1..Len(CurArt.rules) :
              \E k \in 1..Len(log) : log[k].art = art /\ log[k].idx = i
    /\ \A n \in 1..Len(hist) :
          Done(n) => Attempted(hist[n].script, hist[n].log)

\* C11, its case: a finished run of a script with several rules in which a
\* rule that found nothing was followed by a rule that applied
C11_Witness ==
    \E n \in 1..Len(hist) :
        /\ Done(n)
        /\ hist[n].script \in
              {"fix_http_client", "fix_ui", "patch_agents_view",
               "patch_agents_view_model"}
        /\ \E k \in 2..Len(hist[n].log) :
              /\ hist[n].log[k - 1].outcome = "not-found"
              /\ hist[n].log[k].outcome = "applied"
              /\ hist[n].log[k].input = hist[n].log[k - 1].output

\* C12: when the read or the write of DianeHTTPClient.swift fails in
\* fix_http_client2.py, the patch of DianeClientProtocol.swift is still
\* carried out
C12_FailureIsolated ==
    \A n \in 1..Len(hist) :
        (/\ hist[n].script = "fix_http_client2"
         /\ hist[n].status \in {"read-failed", "write-failed"}
         /\ hist[n].path = DianeHTTPClient) =>
            \E k \in 1..Len(hist[n].log) : hist[n].log[k].art = 2

\* C13: while the rules of an artifact are applied its file holds the text
\* that was read; the file is opened for writing only when all its rules
\* have been applied to the buffer, and at most once in a run; a run that
\* failed in reading left the file as it found it
C13_ComputeThenWriteOnce ==
    /\ pc = "rules" =>
          /\ disk[CurArt.path] = before
          /\ opens <= art - 1
    /\ pc = "opened" =>
          /\ rule > Len(CurArt.rules)
          /\ opens <= art
          /\ \A k \in 1..Len(log) :
                (log[k].art = art /\ log[k].idx = Len(CurArt.rules)) =>
                    content = log[k].output
    /\ \A n \in 1..Len(hist) :
          /\ hist[n].opens <= Len(Def(hist[n].script).arts)
          /\ (hist[n].status = "read-failed" /\ hist[n].path = target) =>
                hist[n].left = hist[n].input
          /\ (hist[n].status = "write-failed" /\ hist[n].opens = 0) =>
                hist[n].left = hist[n].read

\* C13, its case: a run that rewrote the file, once, and then a run that
\* failed in reading and left that text in the file
C13_Witness ==
    \E n \in 2..Len(hist) :
        /\ Done(n - 1)
        /\ hist[n - 1].opens = 1
        /\ hist[n - 1].output # hist[n - 1].input
        /\ hist[n].status = "read-failed"
        /\ hist[n].path = target
        /\ hist[n].left = hist[n - 1].output

\* did the run print the closing message of its script, or the success
\* message of an artifact
SaidComplete(h) ==
    \E m \in 1..Len(h.out) :
        \/ <<h.out[m]>> = Def(h.script).final
        \/ \E a \in 1..Len(Def(h.script).arts) :
              <<h.out[m]>> = Def(h.script).arts[a].okmsg

\* C14: two finished runs of a script in which some rule had different
\* outcomes printed different output, and a run printed a success or
\* complete message only if a rule of it changed the text
C14_OutcomeReported ==
    /\ \A n, m \in 1..Len(hist) :
          (/\ hist[n].script = hist[m].script
           /\ Done(n)
           /\ Done(m)
           /\ \E k \in 1..Len(hist[n].log) :
                 hist[n].log[k].outcome # hist[m].log[k].outcome) =>
              hist[n].out # hist[m].out
    /\ \A n \in 1..Len(hist) :
          (Done(n) /\ SaidComplete(hist[n])) =>
              \E k \in 1..Len(hist[n].log) :
                  hist[n].log[k].output # hist[n].log[k].input

BlockScripts ==
    {"patch_agents_view", "patch_agents_view_model",
     "patch_agents_view_model2", "patch_agents_view_model3"}

\* C15: when a script of literal block replacements is run twice, a rule
\* that applied in the first run to a buffer holding its old block once left
\* a buffer without the old block, and in the second run is reported as not
\* found and leaves the buffer as it is
C15_SelfDisabling ==
    \A n \in 1..Len(hist) :
        (SameTwice(n) /\ hist[n].script \in BlockScripts) =>
            \A k \in 1..Len(hist[n - 1].log) :
                LET a == hist[n - 1].log[k]
                    b == hist[n].log[k]
                IN (a.outcome = "applied" /\ MatchCount(a.rule, a.input) = 1) =>
                      /\ ~Contains(a.rule.pat, a.output)
                      /\ b.outcome = "not-found"
                      /\ b.output = b.input
                      /\ \E m \in 1..Len(hist[n].out) :
                            <<hist[n].out[m]>> = b.rule.msg

\* the removal step of fix_diane_client9.py
RemovalRule == fix_diane_client9.arts[1].rules[1]

\* one addAgent function, with any of the bodies the scripts give it
AddAgentFunctions ==
    {Function(b) : b \in {BodyRequestWithBody, BodyLetArgs, BodyRequest,
                          BodyCli, BodyTimeout, BodyVarArgs}}

\* C16: when the removal step of fix_diane_client9.py changes the buffer,
\* what it has taken out is one addAgent function (and its line end) that
\* stood directly before the closing brace that ends the file; nothing else
\* is deleted
C16_RemovesOnlyTrailing ==
    \A k \in 1..Len(log) :
        (log[k].rule = RemovalRule /\ log[k].output # log[k].input) =>
            LET t == log[k].input
                u == log[k].output
            IN \E F \in AddAgentFunctions, i \in 1..Len(t),
                    post \in {<<>>, <<NL>>} :
                  /\ t = SubSeq(t, 1, i - 1) \o F \o <<NL, RB, NL>> \o post
                  /\ u = SubSeq(t, 1, i - 1) \o <<RB>> \o post

\* what fix_diane_client3.py puts before the closing brace
add_func_inner == <<NL>> \o Function(BodyRequestWithBody) \o <<NL>>

\* C17: fix_diane_client3.py, on a buffer that has a closing brace, puts the
\* addAgent definition directly before the last closing brace and keeps the
\* text before that brace and the text after it
C17_InsertBeforeLastBrace ==
    \A k \in 1..Len(log) :
        (log[k].rule.kind = "rsplit" /\ Contains(<<RB>>, log[k].input)) =>
            LET t == log[k].input
                i == LastAt(<<RB>>, t)
            IN log[k].output =
                  SubSeq(t, 1, i - 1) \o add_func_inner \o SubSeq(t, i, Len(t))

\* C18: after every prefix of the chain, run from an unpatched file with
\* every run ending normally, the file has at most one addAgent definition
C18_AtMostOneAddAgent ==
    \A n \in 1..Len(hist) :
        (/\ Unpatched(hist[1].input)
         /\ \A m \in 1..n : Done(m) /\ hist[m].script = Chain[m]) =>
            Count(Signature, hist[n].output) <= 1

\* the rules of a script applied in order to the text t
RECURSIVE RunRules(_, _, _)
RunRules(rules, k, t) ==
    IF k > Len(rules) THEN t ELSE RunRules(rules, k + 1, Apply(rules[k], t))

RunScript(s, t) == RunRules(Def(s).arts[1].rules, 1, t)

\* two finished runs in succession, of script s and then of script u
Then(n, s, u) ==
    /\ n >= 2
    /\ Done(n - 1)
    /\ Done(n)
    /\ hist[n - 1].script = s
    /\ hist[n].script = u

\* C19: after update_agents_view.py has applied its sheet rule, the sheet
\* rule of fix_ui.py still applies, and the showEditAgent sheet is in the
\* file; after fix_ui.py has applied its sheet rule, the sheet rule of
\* update_agents_view.py finds nothing and attaches no showEditAgent sheet;
\* the two orders give different texts
C19_OrderDependence ==
    \A n \in 1..Len(hist) :
        /\ (/\ Then(n, "update_agents_view", "fix_ui")
            /\ hist[n - 1].log[1].outcome = "applied") =>
               /\ hist[n].log[3].outcome = "applied"
               /\ Contains(<<SHE>>, hist[n].output)
               /\ Count(<<SHE>>, hist[n].output) > Count(<<SHE>>, hist[n - 1].input)
               /\ hist[n].output #
                     RunScript("update_agents_view",
                               RunScript("fix_ui", hist[n - 1].input))
        /\ (/\ Then(n, "fix_ui", "update_agents_view")
            /\ hist[n - 1].log[3].outcome = "applied") =>
               /\ hist[n].log[1].outcome = "not-found"
               /\ Count(<<SHE>>, hist[n].output) = Count(<<SHE>>, hist[n - 1].input)

\* C19, its case: update_agents_view.py run after a run of fix_ui.py that
\* found the showAddAgent sheet and rewrote it
C19_Witness ==
    \E n \in 1..Len(hist) :
        /\ Then(n, "fix_ui", "update_agents_view")
        /\ hist[n - 1].log[3].outcome = "applied"
        /\ Contains(<<SH, NL, I12, AAS>>, hist[n - 1].input)
        /\ Contains(<<SHG, NL, I12, AAS>>, hist[n].output)

====
